---- MODULE Spec2Model ----
(***************************************************************************)
(* StackChain (src/src/chain/stackchain.rs): the two-phase middleware      *)
(* chain.  A chain owns `stack` (the linked middleware, in link order) and *)
(* `exit_stack` (the middleware marked during the enter loop).             *)
(*                                                                         *)
(* A middleware handle is [id, st]: `id` names the instance that was moved *)
(* into the chain by link, `st` is the handle's own state, changed by the  *)
(* &mut self calls made on that very handle ("fresh" until a call is made, *)
(* "entered" after enter, "exited" after exit).  clone_box copies both.    *)
(* The chain never inspects a middleware, so instances are named by the    *)
(* order in which they are linked: the k-th link call links instance k.    *)
(*                                                                         *)
(* chain_enter and chain_exit run as loops of middleware calls; each call  *)
(* is one step, and the Status the middleware returns is an input of that  *)
(* step.  No other operation of the chain can start while a call is in     *)
(* progress (the methods take &mut self).                                  *)
(***************************************************************************)
EXTENDS Integers, Sequences, FiniteSets, TLC

\* The longest chain explored: link is not called on a chain of MaxLen middleware.
MaxLen == 3

\* Chain 1 is built by new().  Chain 2 stands for a chain made from chain 1
\* (impl Clone); it is absent (pc = "absent") as long as no step makes it.
ChainIds == {1, 2}

\* middleware::Status
Status == {"Continue", "Unwind"}

VARIABLES
    stack,        \* [chain -> Seq(handle)]   StackChain.stack
    exit_stack,   \* [chain -> Seq(handle)]   StackChain.exit_stack
    pc,           \* [chain -> position]      where the chain's control is
    idx,          \* [chain -> Nat]           items the running loop has taken
    ret,          \* [chain -> Status|"none"] value of the last chain_enter/chain_exit return
    status,       \* [chain -> Status|"none"] dispatch's saved chain_enter result
    linked,       \* [chain -> Seq(id)]       ids in the order link was called
    cur,          \* [chain -> call record]   the public call in progress or last returned
    prev          \* [chain -> call record]   the public call before cur

vars == <<stack, exit_stack, pc, idx, ret, status, linked, cur, prev>>

\* ---------------------------------------------------------------- helpers

Ids(s) == [i \in 1..Len(s) |-> s[i].id]

Range(s) == {s[i] : i \in 1..Len(s)}

\* A call record before any call was made.
NoCall == [op |-> "none", from |-> "idle", ids |-> <<>>, calls |-> <<>>, ret |-> "none"]

\* A public call (chain_enter, chain_exit, dispatch) is running on chain c.
Busy(c) == cur[c].ret = "pending"

\* Chain c exists and no call is running on it.
AtRest(c) == pc[c] # "absent" /\ ~Busy(c)

\* ---------------------------------------------------------------- Vec

\* Faulty variant of push: the item is put at the front.
push_front(s, h) == <<h>> \o s

\* Vec::push
push(s, h) == Append(s, h)

\* Faulty variant of reverse: the order is left as it is.
unreversed(s) == s

\* Vec::reverse
reverse(s) == [i \in 1..Len(s) |-> s[Len(s) + 1 - i]]

\* Faulty variant of mut_iter: the items are yielded last to first.
mut_iter_rev(s) == [i \in 1..Len(s) |-> Len(s) + 1 - i]

\* Faulty variant of mut_iter: the last item is never yielded.
mut_iter_short(s) == [i \in 1..(Len(s) - 1) |-> i]

\* Vec::mut_iter: the positions of s in the order the iterator yields them.
mut_iter(s) == [i \in 1..Len(s) |-> i]

\* ---------------------------------------------------------------- Middleware

\* The handle after `method` was called on it (&mut self).
Invoke(method, h) ==
    IF method = "enter" THEN [h EXCEPT !.st = "entered"]
    ELSE [h EXCEPT !.st = "exited"]

\* Middleware::clone_box: an owned copy with the same state.
clone_box(h) == [id |-> h.id, st |-> h.st]

\* The method the enter loop calls on each middleware.
EnterMethod == "enter"

\* Faulty variant of ExitMethod: the exit loop calls enter.
ExitMethodEnter == "enter"

\* The method the exit loop calls on each middleware.
ExitMethod == "exit"

\* ---------------------------------------------------------------- StackChain

\* StackChain::new
new == [stack |-> <<>>, exit_stack |-> <<>>]

Init ==
    /\ stack = [c \in ChainIds |-> new.stack]
    /\ exit_stack = [c \in ChainIds |-> new.exit_stack]
    /\ pc = [c \in ChainIds |-> IF c = 1 THEN "idle" ELSE "absent"]
    /\ idx = [c \in ChainIds |-> 0]
    /\ ret = [c \in ChainIds |-> "none"]
    /\ status = [c \in ChainIds |-> "none"]
    /\ linked = [c \in ChainIds |-> <<>>]
    /\ cur = [c \in ChainIds |-> NoCall]
    /\ prev = [c \in ChainIds |-> NoCall]

\* A caller starts public call o on chain c.
Begin(c, o) ==
    /\ prev' = [prev EXCEPT ![c] = cur[c]]
    /\ cur' = [cur EXCEPT ![c] = [op |-> o, from |-> pc[c], ids |-> linked[c],
                                  calls |-> <<>>, ret |-> "pending"]]

\* cur after a middleware call is logged and function f returns v:
\* the public call is over when f is the public call itself.
Returned(c, f, v, log) ==
    [cur EXCEPT ![c] = IF @.op = f THEN [@ EXCEPT !.calls = log, !.ret = v]
                       ELSE [@ EXCEPT !.calls = log]]

\* Faulty variant of Link: the middleware is put in the exit trace as well.
LinkMarked(c) ==
    /\ AtRest(c)
    /\ Len(linked[c]) < MaxLen
    /\ LET m == Len(linked[c]) + 1
       IN /\ stack' = [stack EXCEPT ![c] = push(@, [id |-> m, st |-> "fresh"])]
          /\ exit_stack' = [exit_stack EXCEPT ![c] = push(@, [id |-> m, st |-> "fresh"])]
          /\ linked' = [linked EXCEPT ![c] = Append(@, m)]
    /\ UNCHANGED <<pc, idx, ret, status, cur, prev>>

\* StackChain::link: the middleware is moved into the chain, so every link
\* call brings an instance the chain does not hold yet.
Link(c) ==
    /\ AtRest(c)
    /\ Len(linked[c]) < MaxLen
    /\ LET m == Len(linked[c]) + 1
       IN /\ stack' = [stack EXCEPT ![c] = push(@, [id |-> m, st |-> "fresh"])]
          /\ linked' = [linked EXCEPT ![c] = Append(@, m)]
    /\ UNCHANGED <<exit_stack, pc, idx, ret, status, cur, prev>>

\* Faulty variant of ExitStackAtEnter: exit_stack is not reset.
ExitStackKept(c) == exit_stack[c]

\* chain_enter, line 37: the value exit_stack is set to.
ExitStackAtEnter(c) == <<>>

\* chain_enter up to the loop.
EnterBegin(c) ==
    /\ exit_stack' = [exit_stack EXCEPT ![c] = ExitStackAtEnter(c)]
    /\ idx' = [idx EXCEPT ![c] = 0]
    /\ pc' = [pc EXCEPT ![c] = "entering"]

\* A caller calls chain_enter.
ChainEnterCall(c) ==
    /\ AtRest(c)
    /\ Begin(c, "chain_enter")
    /\ EnterBegin(c)
    /\ UNCHANGED <<stack, ret, status, linked>>

\* Faulty variant of EnterStep: the middleware is marked for exit before its
\* signal is looked at.
EnterStepMarkFirst(c, sig) ==
    /\ pc[c] = "entering"
    /\ idx[c] < Len(mut_iter(stack[c]))
    /\ LET p == mut_iter(stack[c])[idx[c] + 1]
           h == Invoke(EnterMethod, stack[c][p])
           log == Append(cur[c].calls, [op |-> EnterMethod, id |-> h.id, sig |-> sig])
       IN /\ stack' = [stack EXCEPT ![c][p] = h]
          /\ exit_stack' = [exit_stack EXCEPT ![c] = push(@, clone_box(h))]
          /\ IF sig = "Unwind"
             THEN /\ pc' = [pc EXCEPT ![c] = "unwound"]
                  /\ idx' = [idx EXCEPT ![c] = 0]
                  /\ ret' = [ret EXCEPT ![c] = "Unwind"]
                  /\ cur' = Returned(c, "chain_enter", "Unwind", log)
             ELSE /\ idx' = [idx EXCEPT ![c] = @ + 1]
                  /\ cur' = [cur EXCEPT ![c].calls = log]
                  /\ UNCHANGED <<pc, ret>>
    /\ UNCHANGED <<status, linked, prev>>

\* Faulty variant of EnterStep: Unwind does not leave the loop; the
\* middleware is skipped and the loop goes on.
EnterStepNoReturn(c, sig) ==
    /\ pc[c] = "entering"
    /\ idx[c] < Len(mut_iter(stack[c]))
    /\ LET p == mut_iter(stack[c])[idx[c] + 1]
           h == Invoke(EnterMethod, stack[c][p])
           log == Append(cur[c].calls, [op |-> EnterMethod, id |-> h.id, sig |-> sig])
       IN /\ stack' = [stack EXCEPT ![c][p] = h]
          /\ exit_stack' = IF sig = "Unwind" THEN exit_stack
                           ELSE [exit_stack EXCEPT ![c] = push(@, clone_box(h))]
          /\ idx' = [idx EXCEPT ![c] = @ + 1]
          /\ cur' = [cur EXCEPT ![c].calls = log]
          /\ UNCHANGED <<pc, ret>>
    /\ UNCHANGED <<status, linked, prev>>

\* One iteration of the enter loop: the middleware's enter returns sig.
EnterStep(c, sig) ==
    /\ pc[c] = "entering"
    /\ idx[c] < Len(mut_iter(stack[c]))
    /\ LET p == mut_iter(stack[c])[idx[c] + 1]
           h == Invoke(EnterMethod, stack[c][p])
           log == Append(cur[c].calls, [op |-> EnterMethod, id |-> h.id, sig |-> sig])
       IN /\ stack' = [stack EXCEPT ![c][p] = h]
          /\ IF sig = "Unwind"
             THEN /\ pc' = [pc EXCEPT ![c] = "unwound"]
                  /\ idx' = [idx EXCEPT ![c] = 0]
                  /\ ret' = [ret EXCEPT ![c] = "Unwind"]
                  /\ cur' = Returned(c, "chain_enter", "Unwind", log)
                  /\ UNCHANGED exit_stack
             ELSE /\ exit_stack' = [exit_stack EXCEPT ![c] = push(@, clone_box(h))]
                  /\ idx' = [idx EXCEPT ![c] = @ + 1]
                  /\ cur' = [cur EXCEPT ![c].calls = log]
                  /\ UNCHANGED <<pc, ret>>
    /\ UNCHANGED <<status, linked, prev>>

\* Faulty variant of EnterFinish: chain_enter returns Unwind after the loop.
EnterFinishUnwind(c) ==
    /\ pc[c] = "entering"
    /\ idx[c] >= Len(mut_iter(stack[c]))
    /\ pc' = [pc EXCEPT ![c] = "entered"]
    /\ idx' = [idx EXCEPT ![c] = 0]
    /\ ret' = [ret EXCEPT ![c] = "Unwind"]
    /\ cur' = Returned(c, "chain_enter", "Unwind", cur[c].calls)
    /\ UNCHANGED <<stack, exit_stack, status, linked, prev>>

\* The enter loop is over: chain_enter returns Continue.
EnterFinish(c) ==
    /\ pc[c] = "entering"
    /\ idx[c] >= Len(mut_iter(stack[c]))
    /\ pc' = [pc EXCEPT ![c] = "entered"]
    /\ idx' = [idx EXCEPT ![c] = 0]
    /\ ret' = [ret EXCEPT ![c] = "Continue"]
    /\ cur' = Returned(c, "chain_enter", "Continue", cur[c].calls)
    /\ UNCHANGED <<stack, exit_stack, status, linked, prev>>

\* chain_exit up to the loop.
ExitBegin(c) ==
    /\ exit_stack' = [exit_stack EXCEPT ![c] = reverse(@)]
    /\ idx' = [idx EXCEPT ![c] = 0]
    /\ pc' = [pc EXCEPT ![c] = "exiting"]

\* A caller calls chain_exit.
ChainExitCall(c) ==
    /\ AtRest(c)
    /\ Begin(c, "chain_exit")
    /\ ExitBegin(c)
    /\ UNCHANGED <<stack, ret, status, linked>>

\* Faulty variant of ExitStep: an exit that returns Unwind ends chain_exit,
\* which returns that signal.
ExitStepShort(c, sig) ==
    /\ pc[c] = "exiting"
    /\ idx[c] < Len(mut_iter(exit_stack[c]))
    /\ LET p == mut_iter(exit_stack[c])[idx[c] + 1]
           h == Invoke(ExitMethod, exit_stack[c][p])
           log == Append(cur[c].calls, [op |-> ExitMethod, id |-> h.id, sig |-> sig])
       IN /\ exit_stack' = [exit_stack EXCEPT ![c][p] = h]
          /\ IF sig = "Unwind"
             THEN /\ pc' = [pc EXCEPT ![c] = "done"]
                  /\ idx' = [idx EXCEPT ![c] = 0]
                  /\ ret' = [ret EXCEPT ![c] = "Unwind"]
                  /\ cur' = Returned(c, "chain_exit", "Unwind", log)
             ELSE /\ idx' = [idx EXCEPT ![c] = @ + 1]
                  /\ cur' = [cur EXCEPT ![c].calls = log]
                  /\ UNCHANGED <<pc, ret>>
    /\ UNCHANGED <<stack, status, linked, prev>>

\* Faulty variant of ExitStep: exit is called on the middleware of stack
\* that the item of the exit trace was cloned from, not on the clone.
ExitStepOnStack(c, sig) ==
    /\ pc[c] = "exiting"
    /\ idx[c] < Len(mut_iter(exit_stack[c]))
    /\ LET p == mut_iter(exit_stack[c])[idx[c] + 1]
           q == CHOOSE i \in 1..Len(stack[c]) : stack[c][i].id = exit_stack[c][p].id
           h == Invoke(ExitMethod, stack[c][q])
           log == Append(cur[c].calls, [op |-> ExitMethod, id |-> h.id, sig |-> sig])
       IN /\ stack' = [stack EXCEPT ![c][q] = h]
          /\ idx' = [idx EXCEPT ![c] = @ + 1]
          /\ cur' = [cur EXCEPT ![c].calls = log]
    /\ UNCHANGED <<exit_stack, pc, ret, status, linked, prev>>

\* One iteration of the exit loop: the middleware's exit returns sig,
\* which is dropped.
ExitStep(c, sig) ==
    /\ pc[c] = "exiting"
    /\ idx[c] < Len(mut_iter(exit_stack[c]))
    /\ LET p == mut_iter(exit_stack[c])[idx[c] + 1]
           h == Invoke(ExitMethod, exit_stack[c][p])
           log == Append(cur[c].calls, [op |-> ExitMethod, id |-> h.id, sig |-> sig])
       IN /\ exit_stack' = [exit_stack EXCEPT ![c][p] = h]
          /\ idx' = [idx EXCEPT ![c] = @ + 1]
          /\ cur' = [cur EXCEPT ![c].calls = log]
    /\ UNCHANGED <<stack, pc, ret, status, linked, prev>>

\* Faulty variant of ExitFinish: chain_exit returns Unwind.
ExitFinishUnwind(c) ==
    /\ pc[c] = "exiting"
    /\ idx[c] >= Len(mut_iter(exit_stack[c]))
    /\ pc' = [pc EXCEPT ![c] = "done"]
    /\ idx' = [idx EXCEPT ![c] = 0]
    /\ ret' = [ret EXCEPT ![c] = "Unwind"]
    /\ cur' = Returned(c, "chain_exit", "Unwind", cur[c].calls)
    /\ UNCHANGED <<stack, exit_stack, status, linked, prev>>

\* The exit loop is over: chain_exit returns Continue.
ExitFinish(c) ==
    /\ pc[c] = "exiting"
    /\ idx[c] >= Len(mut_iter(exit_stack[c]))
    /\ pc' = [pc EXCEPT ![c] = "done"]
    /\ idx' = [idx EXCEPT ![c] = 0]
    /\ ret' = [ret EXCEPT ![c] = "Continue"]
    /\ cur' = Returned(c, "chain_exit", "Continue", cur[c].calls)
    /\ UNCHANGED <<stack, exit_stack, status, linked, prev>>

\* ---------------------------------------------------------------- Chain::dispatch

\* A caller calls dispatch, which calls chain_enter.
DispatchCall(c) ==
    /\ AtRest(c)
    /\ Begin(c, "dispatch")
    /\ EnterBegin(c)
    /\ UNCHANGED <<stack, ret, status, linked>>

\* chain_enter has returned to dispatch, which keeps its result and calls
\* chain_exit, whatever the result.
DispatchExit(c) ==
    /\ Busy(c)
    /\ cur[c].op = "dispatch"
    /\ pc[c] \in {"entered", "unwound"}
    /\ status' = [status EXCEPT ![c] = ret[c]]
    /\ ExitBegin(c)
    /\ UNCHANGED <<stack, ret, linked, cur, prev>>

\* chain_exit has returned to dispatch, which returns chain_enter's result.
DispatchReturn(c) ==
    /\ Busy(c)
    /\ cur[c].op = "dispatch"
    /\ pc[c] = "done"
    /\ cur' = [cur EXCEPT ![c].ret = status[c]]
    /\ status' = [status EXCEPT ![c] = "none"]
    /\ UNCHANGED <<stack, exit_stack, pc, idx, ret, linked, prev>>

Next ==
    \E c \in ChainIds :
        \/ Link(c)
        \/ ChainEnterCall(c)
        \/ \E sig \in Status : EnterStep(c, sig)
        \/ EnterFinish(c)
        \/ ChainExitCall(c)
        \/ \E sig \in Status : ExitStep(c, sig)
        \/ ExitFinish(c)
        \/ DispatchCall(c)
        \/ DispatchExit(c)
        \/ DispatchReturn(c)

\* ---------------------------------------------------------------- impl Clone

\* Vec<Box<Middleware + Send>>::clone: a new vector of clones of the items.
clone_vec(s) == [i \in 1..Len(s) |-> clone_box(s[i])]

\* Faulty variant of clone: both fields are cloned from exit_stack.
clone_mixed(c) ==
    [stack |-> clone_vec(exit_stack[c]), exit_stack |-> clone_vec(exit_stack[c])]

\* StackChain::clone
clone(c) == [stack |-> clone_vec(stack[c]), exit_stack |-> clone_vec(exit_stack[c])]

\* Chain d is made as a clone of chain c (clone takes &self: no call is
\* running on c).  The clone holds the same middleware instances' copies,
\* in the same link order, and no call was made on it yet.
Clone(c, d) ==
    /\ AtRest(c)
    /\ pc[d] = "absent"
    /\ stack' = [stack EXCEPT ![d] = clone(c).stack]
    /\ exit_stack' = [exit_stack EXCEPT ![d] = clone(c).exit_stack]
    /\ pc' = [pc EXCEPT ![d] = "idle"]
    /\ linked' = [linked EXCEPT ![d] = linked[c]]
    /\ UNCHANGED <<idx, ret, status, cur, prev>>

\* ---------------------------------------------------------------- specification

\* The steps of a call that is running on chain c.
Run(c) ==
    \/ \E sig \in Status : EnterStep(c, sig)
    \/ EnterFinish(c)
    \/ \E sig \in Status : ExitStep(c, sig)
    \/ ExitFinish(c)
    \/ DispatchExit(c)
    \/ DispatchReturn(c)

Spec == Init /\ [][Next]_vars

\* The calls are synchronous and a middleware call returns: a call that is
\* running takes its next step.
SpecFair == Init /\ [][Next]_vars /\ \A c \in ChainIds : WF_vars(Run(c))

\* With two chains the exploration is kept smaller: a chain holds fewer
\* than MaxLen middleware, chain 1 is called at most once before chain 2 is
\* made and at most twice in all, chain 2 at most once.
Short(c) == Len(linked[c]) < MaxLen - 1

MayCall(c) ==
    /\ prev[c].op = "none"
    /\ (c = 2 \/ pc[2] = "absent") => cur[c].op = "none"

\* The steps of the chains that exist, in any interleaving.
TwoChains ==
    \E c \in ChainIds :
        \/ Short(c) /\ Link(c)
        \/ MayCall(c) /\ ChainEnterCall(c)
        \/ MayCall(c) /\ ChainExitCall(c)
        \/ MayCall(c) /\ DispatchCall(c)
        \/ Run(c)

NextClone == Clone(1, 2) \/ TwoChains

\* Chain 1 built by new, chain 2 cloned from it at any time chain 1 is at rest.
SpecClone == Init /\ [][NextClone]_vars

\* ---------------------------------------------------------------- impl FromIterator

\* Faulty variant of from_iter: the items are put in the exit trace as well.
from_iter_marked(s) == [stack |-> s, exit_stack |-> s]

\* StackChain::from_iter: stack is the collected items, exit_stack is empty.
from_iter(s) == [stack |-> s, exit_stack |-> <<>>]

\* n boxed middleware no chain holds yet, in the order the iterator yields.
Boxed(n) == [i \in 1..n |-> [id |-> i, st |-> "fresh"]]

\* Chain d is made by from_iter over n middleware.
FromIter(d, n) ==
    /\ pc[d] = "absent"
    /\ stack' = [stack EXCEPT ![d] = from_iter(Boxed(n)).stack]
    /\ exit_stack' = [exit_stack EXCEPT ![d] = from_iter(Boxed(n)).exit_stack]
    /\ pc' = [pc EXCEPT ![d] = "idle"]
    /\ linked' = [linked EXCEPT ![d] = Ids(Boxed(n))]
    /\ UNCHANGED <<idx, ret, status, cur, prev>>

\* Chain 1 is built by new and link, chain 2 by from_iter only; the calls on
\* them are limited as in TwoChains.
NextIter ==
    \/ \E n \in 0..(MaxLen - 1) : FromIter(2, n)
    \/ Short(1) /\ Link(1)
    \/ \E c \in ChainIds :
        \/ MayCall(c) /\ ChainEnterCall(c)
        \/ MayCall(c) /\ ChainExitCall(c)
        \/ MayCall(c) /\ DispatchCall(c)
        \/ Run(c)

SpecIter == Init /\ [][NextIter]_vars

\* ---------------------------------------------------------------- observations

\* The enter calls of call record r, in the order they were made.
EnterCalls(r) == SelectSeq(r.calls, LAMBDA e : e.op = "enter")

\* The exit calls of call record r, in the order they were made.
ExitCalls(r) == SelectSeq(r.calls, LAMBDA e : e.op = "exit")

\* The middleware whose enter returned Unwind in call record r.
Unwinders(r) == {e.id : e \in {x \in Range(r.calls) : x.op = "enter" /\ x.sig = "Unwind"}}

\* The middleware linked after u when call r started.
LinkedAfter(r, u) ==
    {r.ids[j] : j \in {i \in 1..Len(r.ids) : \E p \in 1..(i - 1) : r.ids[p] = u}}

\* In call record r, enter was called on M1..Mk, which returned Continue,
\* and then either on M(k+1), which returned Unwind, or on nothing (k = n).
EnteredPrefix(r, k) ==
    LET e == EnterCalls(r)
    IN /\ k <= Len(e)
       /\ Len(e) <= Len(r.ids)
       /\ Ids(e) = SubSeq(r.ids, 1, Len(e))
       /\ \A i \in 1..k : e[i].sig = "Continue"
       /\ \/ Len(e) = k /\ k = Len(r.ids)
          \/ Len(e) = k + 1 /\ e[k + 1].sig = "Unwind"

\* Sequence s read from its last item to its first.
Backwards(s) == [i \in 1..Len(s) |-> s[Len(s) - i + 1]]

\* How many times method o was called on middleware m in call record r.
Count(r, o, m) ==
    Cardinality({i \in 1..Len(r.calls) : r.calls[i].op = o /\ r.calls[i].id = m})

\* Every middleware that was called in both a and b returned the same signal.
SameSignals(a, b) ==
    \A x \in Range(a.calls), y \in Range(b.calls) :
        (x.op = y.op /\ x.id = y.id) => x.sig = y.sig

\* ---------------------------------------------------------------- claims

\* C1: when chain_enter has returned and no enter call of it returned
\* Unwind, it called enter on the linked middleware M1..Mn in link order,
\* each once, called nothing else, and returned Continue.
C1_EnterInLinkOrder ==
    \A c \in ChainIds :
        (/\ pc[c] \in {"entered", "unwound"}
         /\ \A e \in Range(cur[c].calls) : e.sig = "Continue")
        => /\ Ids(cur[c].calls) = cur[c].ids
           /\ \A e \in Range(cur[c].calls) : e.op = "enter"
           /\ ret[c] = "Continue"
           /\ cur[c].op = "chain_enter" => cur[c].ret = "Continue"

C1_Witness ==
    /\ pc[1] = "entered"
    /\ cur[1].op = "chain_enter"
    /\ Len(cur[1].ids) >= 3
    /\ Ids(cur[1].calls) = cur[1].ids

\* C2: if chain_enter called enter on M1..Mk with Continue and then on
\* M(k+1) with Unwind (or k = n), the chain_exit that follows calls exit on
\* Mk, ..., M1 in that order and on nothing else.  The two calls are made
\* by one dispatch or one after the other by the caller.
C2_ExitInReverse ==
    \A c \in ChainIds :
        /\ (cur[c].op = "dispatch" /\ ~Busy(c))
           => \A k \in 0..Len(cur[c].ids) :
                 EnteredPrefix(cur[c], k)
                 => Ids(ExitCalls(cur[c])) = Backwards(SubSeq(cur[c].ids, 1, k))
        /\ (/\ cur[c].op = "chain_exit" /\ ~Busy(c)
            /\ cur[c].from \in {"entered", "unwound"})
           => /\ prev[c].op = "chain_enter"
              /\ \A k \in 0..Len(prev[c].ids) :
                    EnteredPrefix(prev[c], k)
                    => /\ Ids(cur[c].calls) = Backwards(SubSeq(prev[c].ids, 1, k))
                       /\ \A e \in Range(cur[c].calls) : e.op = "exit"

C2_Witness ==
    /\ cur[1].op = "chain_exit"
    /\ ~Busy(1)
    /\ cur[1].from = "unwound"
    /\ Len(prev[1].ids) >= 3
    /\ EnteredPrefix(prev[1], 2)
    /\ Len(cur[1].calls) = 2

\* C3: a middleware whose enter returned Unwind is not in the exit trace
\* and its exit is not called, neither by the dispatch it unwound nor by
\* the chain_exit that follows the chain_enter it unwound.
C3_UnwinderNotExited ==
    \A c \in ChainIds :
        /\ \A u \in Unwinders(cur[c]) :
              /\ u \notin Range(Ids(exit_stack[c]))
              /\ u \notin Range(Ids(ExitCalls(cur[c])))
        /\ (cur[c].op = "chain_exit" /\ cur[c].from = "unwound")
           => \A u \in Unwinders(prev[c]) :
                 /\ u \notin Range(Ids(exit_stack[c]))
                 /\ u \notin Range(Ids(cur[c].calls))

C3_Witness ==
    /\ cur[1].op = "dispatch"
    /\ ~Busy(1)
    /\ Unwinders(cur[1]) # {}
    /\ Len(ExitCalls(cur[1])) >= 2

\* C4: once an enter call has returned Unwind, chain_enter makes no other
\* call and returns Unwind: no middleware linked after the unwinding one is
\* entered or exited, in that dispatch or in the chain_exit that follows.
C4_UnwindStopsEnter ==
    \A c \in ChainIds :
        /\ \A i \in 1..Len(cur[c].calls) :
              (cur[c].calls[i].op = "enter" /\ cur[c].calls[i].sig = "Unwind")
              => /\ pc[c] # "entering"
                 /\ pc[c] = "unwound" => ret[c] = "Unwind"
                 /\ cur[c].op = "chain_enter" => cur[c].ret = "Unwind"
                 /\ \A j \in (i + 1)..Len(cur[c].calls) : cur[c].calls[j].op = "exit"
                 /\ \A m \in LinkedAfter(cur[c], cur[c].calls[i].id) :
                       m \notin Range(Ids(cur[c].calls))
        /\ (cur[c].op = "chain_exit" /\ cur[c].from = "unwound")
           => \A u \in Unwinders(prev[c]) :
                 \A m \in LinkedAfter(prev[c], u) : m \notin Range(Ids(cur[c].calls))

C4_Witness ==
    /\ cur[1].op = "dispatch"
    /\ ~Busy(1)
    /\ cur[1].ret = "Unwind"
    /\ \E u \in Unwinders(cur[1]) : LinkedAfter(cur[1], u) # {}
    /\ ExitCalls(cur[1]) # <<>>

\* C5: a dispatch that has returned made its enter calls, then its exit
\* calls (one for every middleware whose enter returned Continue, also
\* when an enter returned Unwind), and returned Unwind if an enter call
\* returned Unwind and Continue otherwise, whatever the exit calls returned.
C5_DispatchResult ==
    \A c \in ChainIds :
        (cur[c].op = "dispatch" /\ ~Busy(c))
        => /\ pc[c] = "done"
           /\ ret[c] = "Continue"
           /\ cur[c].calls = EnterCalls(cur[c]) \o ExitCalls(cur[c])
           /\ Len(ExitCalls(cur[c]))
                = Cardinality({i \in 1..Len(cur[c].calls) :
                                  /\ cur[c].calls[i].op = "enter"
                                  /\ cur[c].calls[i].sig = "Continue"})
           /\ cur[c].ret = IF Unwinders(cur[c]) # {} THEN "Unwind" ELSE "Continue"

C5_Witness ==
    /\ cur[1].op = "dispatch"
    /\ ~Busy(1)
    /\ cur[1].ret = "Continue"
    /\ Len(cur[1].ids) >= 2
    /\ \A e \in Range(ExitCalls(cur[1])) : e.sig = "Unwind"

\* C6: when chain_exit has returned, exit was called on every middleware of
\* the exit trace, also on those after one whose exit returned Unwind, and
\* chain_exit returned Continue.
C6_ExitNotStopped ==
    \A c \in ChainIds :
        pc[c] = "done"
        => /\ Ids(ExitCalls(cur[c])) = Ids(exit_stack[c])
           /\ \A h \in Range(exit_stack[c]) : h.st = "exited"
           /\ ret[c] = "Continue"
           /\ cur[c].op = "chain_exit" => cur[c].ret = "Continue"

C6_Witness ==
    /\ pc[1] = "done"
    /\ cur[1].op = "chain_exit"
    /\ Len(cur[1].calls) >= 3
    /\ cur[1].calls[1].sig = "Unwind"

\* C7: after a dispatch in which every call returned Continue, enter was
\* called exactly once and exit exactly once on every linked middleware.
C7_EachOnce ==
    \A c \in ChainIds :
        (/\ cur[c].op = "dispatch" /\ ~Busy(c)
         /\ \A e \in Range(cur[c].calls) : e.sig = "Continue")
        => /\ \A m \in Range(cur[c].ids) :
                 Count(cur[c], "enter", m) = 1 /\ Count(cur[c], "exit", m) = 1
           /\ Len(cur[c].calls) = 2 * Len(cur[c].ids)

C7_Witness ==
    /\ cur[1].op = "dispatch"
    /\ ~Busy(1)
    /\ Len(cur[1].ids) >= 3
    /\ \A e \in Range(cur[1].calls) : e.sig = "Continue"
    /\ Len(cur[1].calls) >= 6

\* C8: two dispatches of the same chain, one after the other, in which the
\* middleware return the same signals call enter on the same middleware
\* in the same order and exit on the same middleware in the same order.
C8_Redispatch ==
    \A c \in ChainIds :
        (/\ cur[c].op = "dispatch" /\ ~Busy(c)
         /\ prev[c].op = "dispatch"
         /\ cur[c].ids = prev[c].ids
         /\ SameSignals(cur[c], prev[c]))
        => /\ Ids(EnterCalls(cur[c])) = Ids(EnterCalls(prev[c]))
           /\ Ids(ExitCalls(cur[c])) = Ids(ExitCalls(prev[c]))

C8_Witness ==
    /\ cur[1].op = "dispatch"
    /\ ~Busy(1)
    /\ prev[1].op = "dispatch"
    /\ cur[1].ids = prev[1].ids
    /\ SameSignals(cur[1], prev[1])
    /\ Unwinders(cur[1]) # {}
    /\ Len(ExitCalls(cur[1])) >= 2

\* C9: on a chain built by new with no middleware linked, dispatch,
\* chain_enter and chain_exit return Continue and call no middleware.
C9_EmptyChain ==
    \A c \in ChainIds :
        (cur[c].op # "none" /\ ~Busy(c) /\ cur[c].ids = <<>>)
        => /\ cur[c].ret = "Continue"
           /\ cur[c].calls = <<>>

C9_Witness ==
    /\ cur[1].op = "dispatch"
    /\ ~Busy(1)
    /\ cur[1].ids = <<>>
    /\ prev[1].op = "chain_exit"
    /\ prev[1].from = "entered"
    /\ prev[1].ids = <<>>

\* C10: a chain_enter call makes no exit call and a chain_exit call makes
\* no enter call.
C10_PhasesSeparate ==
    \A c \in ChainIds :
        /\ cur[c].op = "chain_enter" => \A e \in Range(cur[c].calls) : e.op = "enter"
        /\ cur[c].op = "chain_exit" => \A e \in Range(cur[c].calls) : e.op = "exit"

C10_Witness ==
    /\ cur[1].op = "chain_exit"
    /\ ~Busy(1)
    /\ Len(cur[1].calls) >= 2
    /\ prev[1].op = "chain_enter"
    /\ Len(prev[1].calls) >= 2

\* C11: a link step leaves the middleware already linked where they are,
\* puts the new middleware after them and leaves the exit trace as it is
\* (action part); the enter sequence is at all times the linked middleware
\* in link order, and a chain_enter that runs to its end calls enter on the
\* middleware linked last as its last call (state part).
C11_LinkAppends ==
    /\ [][\A c \in ChainIds :
            linked'[c] # linked[c]
            => /\ Len(stack'[c]) = Len(stack[c]) + 1
               /\ SubSeq(stack'[c], 1, Len(stack[c])) = stack[c]
               /\ stack'[c][Len(stack'[c])].id = linked'[c][Len(linked'[c])]
               /\ exit_stack'[c] = exit_stack[c]]_vars
    /\ [](\A c \in ChainIds :
            /\ Ids(stack[c]) = linked[c]
            /\ (pc[c] = "entered" /\ cur[c].ids # <<>>)
               => /\ EnterCalls(cur[c]) # <<>>
                  /\ EnterCalls(cur[c])[Len(EnterCalls(cur[c]))].id
                        = cur[c].ids[Len(cur[c].ids)])

C11_Witness ==
    /\ pc[1] = "entered"
    /\ cur[1].op = "chain_enter"
    /\ prev[1].op = "chain_enter"
    /\ Len(prev[1].ids) >= 1
    /\ Len(cur[1].ids) > Len(prev[1].ids)
    /\ exit_stack[1] # <<>>

\* C13: when chain_exit has returned the exit trace is empty, and a
\* chain_exit that starts right after a chain_exit, with no chain_enter in
\* between, calls no middleware.
C13_ExitDrains ==
    \A c \in ChainIds :
        /\ pc[c] = "done" => exit_stack[c] = <<>>
        /\ (cur[c].op = "chain_exit" /\ cur[c].from = "done") => cur[c].calls = <<>>

\* The enter calls of call record r that returned Continue, in call order.
Continued(r) == SelectSeq(r.calls, LAMBDA e : e.op = "enter" /\ e.sig = "Continue")

\* C16: when chain_enter has returned, the exit trace holds the middleware
\* whose enter returned Continue in this call, in call order, each as its
\* enter left it: the linked middleware before the first one that unwound,
\* and nothing an earlier chain_enter recorded.
C16_TraceIsContinuedPrefix ==
    \A c \in ChainIds :
        pc[c] \in {"entered", "unwound"}
        => /\ Ids(exit_stack[c]) = Ids(Continued(cur[c]))
           /\ Ids(exit_stack[c]) = SubSeq(cur[c].ids, 1, Len(Continued(cur[c])))
           /\ \A h \in Range(exit_stack[c]) : h.st = "entered"
           /\ pc[c] = "entered" => Len(exit_stack[c]) = Len(cur[c].ids)

C16_Witness ==
    /\ pc[1] = "unwound"
    /\ cur[1].op = "chain_enter"
    /\ cur[1].from = "entered"
    /\ prev[1].op = "chain_enter"
    /\ Len(prev[1].calls) >= 3
    /\ Len(exit_stack[1]) = 1

\* The exit pass running on chain c follows an enter pass: it is the exit
\* pass of a dispatch, or of a chain_exit called right after chain_enter.
ExitAfterEnter(c) ==
    \/ cur[c].op = "dispatch"
    \/ cur[c].op = "chain_exit" /\ cur[c].from \in {"entered", "unwound"}

C20_LinkedBetweenNotExited ==
    \A c \in ChainIds :
        /\ (cur[c].op = "chain_exit" /\ cur[c].from \in {"entered", "unwound"})
           => /\ \A e \in Range(cur[c].calls) : e.id \in Range(prev[c].ids)
              /\ \A h \in Range(exit_stack[c]) : h.id \in Range(prev[c].ids)
              /\ Len(cur[c].calls) <= Len(prev[c].ids)
        /\ (pc[c] = "entered" /\ cur[c].op \in {"chain_enter", "dispatch"})
           => \A m \in Range(cur[c].ids) : m \in Range(Ids(EnterCalls(cur[c])))

C20_Witness ==
    /\ cur[1].op = "chain_exit"
    /\ ~Busy(1)
    /\ cur[1].from = "entered"
    /\ Len(prev[1].ids) >= 2
    /\ Len(cur[1].ids) > Len(prev[1].ids)
    /\ Len(cur[1].calls) = Len(prev[1].ids)

\* The moves of pc while a dispatch is running, after the move to
\* "entering" that starts it; the last one is the return of dispatch.
DispatchMoves ==
    {<<"entering", "entering">>, <<"entering", "entered">>, <<"entering", "unwound">>,
     <<"entered", "exiting">>, <<"unwound", "exiting">>,
     <<"exiting", "exiting">>, <<"exiting", "done">>, <<"done", "done">>}

\* C17: a dispatch starts from rest with the move to Entering, then moves
\* Entering -> (Unwound | Entered) -> Exiting -> Done (Unwound exactly when
\* an enter returned Unwind) and returns; its enter calls all come before
\* its exit calls, it makes at most n of each on a chain of n middleware,
\* and every dispatch that is running returns.
C17_DispatchLifecycle ==
    /\ [][\A c \in ChainIds :
            /\ (~Busy(c) /\ Busy(c)' /\ cur'[c].op = "dispatch")
               => /\ pc[c] \in {"idle", "entered", "unwound", "done"}
                  /\ pc'[c] = "entering"
            /\ (Busy(c) /\ cur[c].op = "dispatch")
               => /\ \/ <<pc[c], pc'[c]>> \in DispatchMoves
                     \/ pc'[c] = pc[c] /\ cur'[c] = cur[c]
                  /\ ~Busy(c)' => pc[c] = "done"]_vars
    /\ [](\A c \in ChainIds :
            cur[c].op = "dispatch"
            => /\ cur[c].calls = EnterCalls(cur[c]) \o ExitCalls(cur[c])
               /\ Len(EnterCalls(cur[c])) <= Len(cur[c].ids)
               /\ Len(ExitCalls(cur[c])) <= Len(cur[c].ids)
               /\ pc[c] \in {"entering", "entered", "unwound"} => ExitCalls(cur[c]) = <<>>
               /\ pc[c] = "entered" => Unwinders(cur[c]) = {}
               /\ pc[c] = "unwound" => Unwinders(cur[c]) # {}
               /\ ~Busy(c) => pc[c] = "done")
    /\ \A c \in ChainIds :
          (Busy(c) /\ cur[c].op = "dispatch") ~> (~Busy(c) /\ pc[c] = "done")

C17_Witness ==
    /\ cur[1].op = "dispatch"
    /\ ~Busy(1)
    /\ pc[1] = "done"
    /\ Len(cur[1].ids) >= 3
    /\ Unwinders(cur[1]) # {}
    /\ Len(ExitCalls(cur[1])) >= 1

\* A step of chain c: one that moves its control, its loop, its call
\* record or its link order (the step that makes the chain included).
StepOf(c) ==
    \/ pc'[c] # pc[c]
    \/ idx'[c] # idx[c]
    \/ cur'[c] # cur[c]
    \/ linked'[c] # linked[c]

\* C12: the step that makes the clone gives it copies of the original's two
\* vectors and leaves the original's as they are; after that no step of one
\* chain changes the enter sequence or exit trace of the other, whatever
\* the interleaving; and a dispatch on either chain calls enter on its own
\* linked middleware in link order up to the first Unwind, then exit on
\* those that continued, last first, as a dispatch on a single chain does.
C12_CloneIndependent ==
    /\ [][/\ \A c \in ChainIds : \A d \in ChainIds \ {c} :
               StepOf(c) => /\ stack'[d] = stack[d]
                            /\ exit_stack'[d] = exit_stack[d]
          /\ (pc[2] = "absent" /\ pc'[2] # "absent")
             => /\ stack'[2] = stack[1]
                /\ exit_stack'[2] = exit_stack[1]]_vars
    /\ [](\A c \in ChainIds :
            (cur[c].op = "dispatch" /\ ~Busy(c))
            => /\ Len(EnterCalls(cur[c])) <= Len(cur[c].ids)
               /\ Ids(EnterCalls(cur[c])) = SubSeq(cur[c].ids, 1, Len(EnterCalls(cur[c])))
               /\ \A i \in 1..(Len(EnterCalls(cur[c])) - 1) :
                     EnterCalls(cur[c])[i].sig = "Continue"
               /\ Unwinders(cur[c]) = {} => Len(EnterCalls(cur[c])) = Len(cur[c].ids)
               /\ Ids(ExitCalls(cur[c])) = Backwards(Ids(Continued(cur[c])))
               /\ cur[c].calls = EnterCalls(cur[c]) \o ExitCalls(cur[c]))

\* Both chains have returned from a dispatch, chain 2 having been cloned
\* after a chain_enter on chain 1 and the two chains having been linked
\* to different lengths since; chain 1's dispatch unwound, chain 2's
\* called exit.
C12_Witness ==
    /\ cur[1].op = "dispatch" /\ ~Busy(1)
    /\ cur[2].op = "dispatch" /\ ~Busy(2)
    /\ prev[1].op = "chain_enter"
    /\ Len(cur[1].ids) >= 1
    /\ Len(cur[2].ids) >= 1
    /\ Len(cur[1].ids) # Len(cur[2].ids)
    /\ Unwinders(cur[1]) # {}
    /\ Len(ExitCalls(cur[2])) >= 1

\* No chain_enter was called on chain c, by a caller or by dispatch.  (The
\* two call records are the whole history of a chain where MayCall guards
\* the calls.)
NeverEntered(c) ==
    /\ cur[c].op \in {"none", "chain_exit"}
    /\ prev[c].op \in {"none", "chain_exit"}

\* C14: a chain on which chain_enter was never called has an empty exit
\* trace, however it was made, and a chain_exit on it calls no middleware.
C14_TraceEmptyBeforeEnter ==
    \A c \in ChainIds :
        (pc[c] # "absent" /\ NeverEntered(c))
        => /\ exit_stack[c] = <<>>
           /\ cur[c].calls = <<>>

\* C15: the exit trace is never longer than the enter sequence.
C15_TraceWithinStack ==
    \A c \in ChainIds : Len(exit_stack[c]) <= Len(stack[c])

C15_Witness ==
    /\ pc[2] = "unwound"
    /\ cur[1].op = "chain_exit" /\ ~Busy(1)
    /\ Len(stack[2]) >= 2
    /\ Len(exit_stack[2]) = 1
    /\ Len(exit_stack[1]) = Len(stack[1])
    /\ Len(stack[1]) >= 2

\* Call record r is a dispatch that has returned.
Dispatched(r) == r.op = "dispatch" /\ r.ret # "pending"

\* C18: a chain made by from_iter over a sequence of middleware (chain 2)
\* is as a chain made by new and link of the same middleware in the same
\* order (chain 1): before any call the two have the same enter sequence
\* and an empty exit trace, and a dispatch on the one and a dispatch on
\* the other in which the middleware return the same signals make the same
\* enter and exit calls in the same order and return the same result.
C18_FromIterAsLinks ==
    /\ (/\ pc[2] # "absent"
        /\ cur[1].op = "none" /\ cur[2].op = "none"
        /\ linked[1] = linked[2])
       => /\ stack[2] = stack[1]
          /\ exit_stack[2] = <<>>
          /\ exit_stack[1] = <<>>
    /\ \A r \in {cur[1], prev[1]} :
          (/\ Dispatched(r) /\ Dispatched(cur[2])
           /\ r.ids = cur[2].ids
           /\ SameSignals(r, cur[2]))
          => /\ cur[2].calls = r.calls
             /\ cur[2].ret = r.ret

\* Both chains hold the same two middleware and a dispatch on each has
\* returned, the first enter continuing and the second unwinding.
C18_Witness ==
    /\ Dispatched(cur[1]) /\ Dispatched(cur[2])
    /\ cur[1].ids = cur[2].ids
    /\ Len(cur[2].ids) = 2
    /\ SameSignals(cur[1], cur[2])
    /\ Len(ExitCalls(cur[2])) = 1
    /\ Unwinders(cur[2]) # {}

====
